---------------------------- MODULE Spec2Model ----------------------------
(***************************************************************************)
(* A model of scraper.py: the bounded-concurrency page fetcher, the        *)
(* pattern extractor, the config filter, the name resolver, the country    *)
(* classifier and the output stage of main().                              *)
(*                                                                         *)
(* Text is a sequence of characters.  A character is a one-character       *)
(* string for printable ASCII, "\n" and "\t"; any other code point n (and  *)
(* the grave accent, 96) is the string "U+n", n in decimal, so that len()  *)
(* counts code points as Python does.                                      *)
(***************************************************************************)
EXTENDS Integers, Sequences, FiniteSets, TLC

(***************************************************************************)
(* Configuration (scraper.py lines 19-32)                                  *)
(***************************************************************************)
CONCURRENT_REQUESTS == 10

MAX_CONFIG_LENGTH == 1500

MIN_PERCENT25_COUNT == 15

PROTOCOL_CATEGORIES ==
    <<"Vmess", "Vless", "Trojan", "ShadowSocks", "ShadowSocksR",
      "Tuic", "Hysteria2", "WireGuard">>

(***************************************************************************)
(* Characters and the str methods the program uses                         *)
(***************************************************************************)
\* A Python value the program handles: its type t, the text v of a str (or
\* the pairs of a dict) and its truth value
None == [t |-> "none", v |-> <<>>, truthy |-> FALSE]

Str(s) == [t |-> "str", v |-> s, truthy |-> s # <<>>]

Ascii ==
    <<" ","!","\"","#","$","%","&","'","(",")","*","+",",","-",".","/","0",
      "1","2","3","4","5","6","7","8","9",":",";","<","=",">","?","@","A",
      "B","C","D","E","F","G","H","I","J","K","L","M","N","O","P","Q","R",
      "S","T","U","V","W","X","Y","Z","[","\\","]","^","_","U+96","a","b","c",
      "d","e","f","g","h","i","j","k","l","m","n","o","p","q","r","s","t",
      "u","v","w","x","y","z","{","|","}","~">>

Range(s) == {s[i] : i \in 1..Len(s)}

Min(S) == CHOOSE x \in S : \A y \in S : x <= y

CodePoint(n) == "U+" \o ToString(n)

\* chr(): the character of a code point
Chr(n) ==
    IF n >= 32 /\ n <= 126 THEN Ascii[n - 31]
    ELSE IF n = 10 THEN "\n"
    ELSE IF n = 9 THEN "\t"
    ELSE CodePoint(n)

UpperLetters == {Ascii[i] : i \in 34..59}

LowerLetters == {Ascii[i] : i \in 66..91}

Digits == {Ascii[i] : i \in 17..26}

\* the letters of the Arabic block, U+0620..U+064A: alphabetic, without case
ArabicLetters == {CodePoint(n) : n \in 1568..1610}

\* U+0600 <= char <= U+06FF or char in ZWNJ, ZWJ (line 47)
ArabicScript == {CodePoint(n) : n \in 1536..1791} \cup {CodePoint(8204), CodePoint(8205)}

Whitespace == {" ", "\t", "\n", CodePoint(11), CodePoint(12), CodePoint(13)}

LowerOf ==
    [c \in UpperLetters |-> Ascii[(CHOOSE i \in 34..59 : Ascii[i] = c) + 32]]

\* str.lower() on one character
LowerChar(c) == IF c \in UpperLetters THEN LowerOf[c] ELSE c

\* str.lower()
Lower(s) == [i \in 1..Len(s) |-> LowerChar(s[i])]

IsAlnumChar(c) == c \in UpperLetters \cup LowerLetters \cup Digits \cup ArabicLetters

\* str.isalnum(): every character alphanumeric and at least one character
IsAlnum(s) == Len(s) >= 1 /\ \A i \in 1..Len(s) : IsAlnumChar(s[i])

\* a character \w matches in a str pattern
IsWordChar(c) == IsAlnumChar(c) \/ c = "_"

\* s[i:i+len(sub)] == sub
OccursAt(s, sub, i) ==
    /\ i >= 1
    /\ i + Len(sub) - 1 <= Len(s)
    /\ \A j \in 1..Len(sub) : s[i + j - 1] = sub[j]

\* sub in s
Contains(s, sub) == \E i \in 1..(Len(s) + 1) : OccursAt(s, sub, i)

\* str.find from a position: the first index >= from where sub occurs, or 0
Find(s, sub, from) ==
    LET hits == {i \in from..(Len(s) - Len(sub) + 1) : OccursAt(s, sub, i)}
    IN  IF hits = {} THEN 0 ELSE Min(hits)

RECURSIVE CountFrom(_, _, _)
CountFrom(s, sub, from) ==
    LET i == Find(s, sub, from)
    IN  IF i = 0 THEN 0 ELSE 1 + CountFrom(s, sub, i + Len(sub))

\* str.count(sub): the non-overlapping occurrences, scanning from the left
Count(s, sub) == CountFrom(s, sub, 1)

\* str.strip(): from the first character that is no whitespace to the last
Strip(s) ==
    IF \A i \in 1..Len(s) : s[i] \in Whitespace THEN <<>>
    ELSE SubSeq(s,
                CHOOSE i \in 1..Len(s) :
                    s[i] \notin Whitespace
                        /\ \A j \in 1..(i - 1) : s[j] \in Whitespace,
                CHOOSE i \in 1..Len(s) :
                    s[i] \notin Whitespace
                        /\ \A j \in (i + 1)..Len(s) : s[j] \in Whitespace)

StartsWith(s, prefix) == OccursAt(s, prefix, 1)

\* s[from:to] with to exclusive, both 1-based
Slice(s, from, to) == SubSeq(s, from, to - 1)

(***************************************************************************)
(* should_filter_config (lines 102-116)                                    *)
(***************************************************************************)
ILoveMarker == <<"i","_","l","o","v","e","_">>

Percent25 == <<"%","2","5">>

Percent2525 == <<"%","2","5","2","5">>

\* the variant with > for >= in the test of line 108
should_filter_config_above(config) ==
    IF Contains(Lower(config), ILoveMarker) THEN TRUE
    ELSE IF Count(config, Percent25) > MIN_PERCENT25_COUNT THEN TRUE
    ELSE IF Len(config) >= MAX_CONFIG_LENGTH THEN TRUE
    ELSE IF Contains(config, Percent2525) THEN TRUE
    ELSE FALSE

should_filter_config(config) ==
    IF Contains(Lower(config), ILoveMarker) THEN TRUE
    ELSE IF Count(config, Percent25) >= MIN_PERCENT25_COUNT THEN TRUE
    ELSE IF Len(config) >= MAX_CONFIG_LENGTH THEN TRUE
    ELSE IF Contains(config, Percent2525) THEN TRUE
    ELSE FALSE

(***************************************************************************)
(* urllib.parse.unquote and bytes.decode('utf-8')                          *)
(*                                                                         *)
(* Decoding works on items: a byte 0..255, or a character that is passed   *)
(* through as it is (byte = -1), which is how unquote treats the text      *)
(* between its ASCII runs.                                                 *)
(***************************************************************************)
AsciiChars == {Chr(n) : n \in 0..127}

OrdTable == [c \in AsciiChars |-> CHOOSE n \in 0..127 : Chr(n) = c]

\* ord() of an ASCII character
Ord(c) == OrdTable[c]

HexDigits == Digits \cup {"a","b","c","d","e","f","A","B","C","D","E","F"}

HexVal(c) ==
    IF c \in Digits THEN Ord(c) - 48
    ELSE IF c \in LowerLetters THEN Ord(c) - 87
    ELSE Ord(c) - 55

ByteItem(b) == [byte |-> b, char |-> ""]

CharItem(c) == [byte |-> -1, char |-> c]

IsCont(b) == b >= 128 /\ b <= 191

\* the continuation bytes a lead byte asks for; -1 for a byte that leads nothing
Utf8Need(b) ==
    IF b < 128 THEN 0
    ELSE IF b >= 194 /\ b <= 223 THEN 1
    ELSE IF b >= 224 /\ b <= 239 THEN 2
    ELSE IF b >= 240 /\ b <= 244 THEN 3
    ELSE -1

\* the first continuation byte is narrower after E0, ED, F0 and F4
Utf8SecondOk(lead, b) ==
    IF lead = 224 THEN b >= 160 /\ b <= 191
    ELSE IF lead = 237 THEN b >= 128 /\ b <= 159
    ELSE IF lead = 240 THEN b >= 144 /\ b <= 191
    ELSE IF lead = 244 THEN b >= 128 /\ b <= 143
    ELSE IsCont(b)

\* how many of the items after position i continue the sequence led by items[i]
Utf8Good(items, i) ==
    LET need == Utf8Need(items[i].byte)
        ok(k) == /\ i + k <= Len(items)
                 /\ IF k = 1 THEN Utf8SecondOk(items[i].byte, items[i + 1].byte)
                    ELSE IsCont(items[i + k].byte)
    IN  IF need < 1 \/ ~ok(1) THEN 0
        ELSE IF need < 2 \/ ~ok(2) THEN 1
        ELSE IF need < 3 \/ ~ok(3) THEN 2
        ELSE 3

Utf8Point(items, i, need) ==
    IF need = 1 THEN (items[i].byte % 32) * 64 + (items[i + 1].byte % 64)
    ELSE IF need = 2 THEN
        (items[i].byte % 16) * 4096 + (items[i + 1].byte % 64) * 64
            + (items[i + 2].byte % 64)
    ELSE (items[i].byte % 8) * 262144 + (items[i + 1].byte % 64) * 4096
            + (items[i + 2].byte % 64) * 64 + (items[i + 3].byte % 64)

\* the character of an item that is a passed-through character or an ASCII byte
PlainChar(item) == IF item.byte = -1 THEN item.char ELSE Chr(item.byte)

\* decode('utf-8', errors) from item i: [ok, v].  The plain items up to the
\* next byte >= 0x80 are taken at once; with replace, an ill-formed sequence
\* becomes one U+FFFD, otherwise decoding fails.
RECURSIVE Utf8From(_, _, _)
Utf8From(items, i, replace) ==
    LET high == {j \in i..Len(items) : items[j].byte >= 128}
        stop == IF high = {} THEN Len(items) + 1 ELSE Min(high)
        plain == [k \in 1..(stop - i) |-> PlainChar(items[i + k - 1])]
    IN  IF high = {} THEN [ok |-> TRUE, v |-> plain]
        ELSE LET need == Utf8Need(items[stop].byte)
                 good == Utf8Good(items, stop)
             IN  IF need >= 1 /\ good = need
                 THEN LET rest == Utf8From(items, stop + need + 1, replace)
                      IN  [ok |-> rest.ok,
                           v |-> plain \o <<Chr(Utf8Point(items, stop, need))>>
                                     \o rest.v]
                 ELSE IF replace
                 THEN LET rest == Utf8From(items, stop + good + 1, replace)
                      IN  [ok |-> rest.ok,
                           v |-> plain \o <<CodePoint(65533)>> \o rest.v]
                 ELSE [ok |-> FALSE, v |-> <<>>]

\* bytes.decode('utf-8'): [ok, v], ok FALSE for UnicodeDecodeError
Utf8Decode(bytes) ==
    Utf8From([k \in 1..Len(bytes) |-> ByteItem(bytes[k])], 1, FALSE)

\* %XX at position i
IsEscape(s, i) ==
    /\ i >= 1
    /\ i + 2 <= Len(s)
    /\ s[i] = "%"
    /\ s[i + 1] \in HexDigits
    /\ s[i + 2] \in HexDigits

Indices(s) == [i \in 1..Len(s) |-> i]

\* urllib.parse.unquote(s): utf-8, errors='replace'.  An escape is one byte,
\* any other ASCII character its own byte, and the bytes of each run are
\* decoded together.
unquote(s) ==
    LET starts == SelectSeq(Indices(s),
                     LAMBDA i : ~IsEscape(s, i - 1) /\ ~IsEscape(s, i - 2))
        item(i) == IF IsEscape(s, i)
                   THEN ByteItem(HexVal(s[i + 1]) * 16 + HexVal(s[i + 2]))
                   ELSE IF s[i] \in AsciiChars THEN ByteItem(Ord(s[i]))
                   ELSE CharItem(s[i])
    IN  Utf8From([k \in 1..Len(starts) |-> item(starts[k])], 1, TRUE).v

(***************************************************************************)
(* decode_base64 (lines 57-65)                                             *)
(***************************************************************************)
B64Alphabet ==
    <<"A","B","C","D","E","F","G","H","I","J","K","L","M","N","O","P","Q",
      "R","S","T","U","V","W","X","Y","Z","a","b","c","d","e","f","g","h",
      "i","j","k","l","m","n","o","p","q","r","s","t","u","v","w","x","y",
      "z","0","1","2","3","4","5","6","7","8","9","+","/">>

B64Chars == Range(B64Alphabet)

B64Table == [c \in B64Chars |-> (CHOOSE i \in 1..64 : B64Alphabet[i] = c) - 1]

\* binascii.a2b_base64 without strict_mode, which base64.b64decode calls:
\* characters outside the alphabet are skipped; '=' counts as padding once
\* two characters of a quad are read, and the padding that completes the
\* quad ends the input; otherwise the data must end on a quad.  [ok, bytes]
a2b_base64(s) ==
    LET data == SelectSeq(Indices(s), LAMBDA i : s[i] \in B64Chars)
        Before(p) == Cardinality({j \in 1..(p - 1) : s[j] \in B64Chars})
        quad_pos(p) == Before(p) % 4
        LastData(p) ==
            LET earlier == {j \in 1..(p - 1) : s[j] \in B64Chars}
            IN  IF earlier = {} THEN 0
                ELSE CHOOSE j \in earlier : \A k \in earlier : k <= j
        pads(p) == Cardinality({j \in (LastData(p) + 1)..p : s[j] = "="})
        done == {p \in 1..Len(s) :
                    /\ s[p] = "="
                    /\ quad_pos(p) >= 2
                    /\ quad_pos(p) + pads(p) >= 4}
        n == IF done = {} THEN Len(data) ELSE Before(Min(done))
        d(k) == B64Table[s[data[k]]]
        count == 3 * (n \div 4)
                    + (IF n % 4 = 2 THEN 1 ELSE IF n % 4 = 3 THEN 2 ELSE 0)
        byte(k) ==
            LET q == 4 * ((k - 1) \div 3)
                r == (k - 1) % 3
            IN  IF r = 0 THEN d(q + 1) * 4 + d(q + 2) \div 16
                ELSE IF r = 1 THEN (d(q + 2) % 16) * 16 + d(q + 3) \div 4
                ELSE (d(q + 3) % 4) * 64 + d(q + 4)
    IN  IF done = {} /\ n % 4 # 0 THEN [ok |-> FALSE, bytes |-> <<>>]
        ELSE [ok |-> TRUE, bytes |-> [k \in 1..count |-> byte(k)]]

\* base64.b64decode(s) of a str: s.encode('ascii') comes first
b64decode(s) ==
    IF \E i \in 1..Len(s) : s[i] \notin AsciiChars
    THEN [ok |-> FALSE, bytes |-> <<>>]
    ELSE a2b_base64(s)

\* str.replace of one character by another
ReplaceChar(s, old, new) == [i \in 1..Len(s) |-> IF s[i] = old THEN new ELSE s[i]]

\* '=' * (4 - missing_padding)
Padding(n) == [i \in 1..n |-> "="]

\* the decoded text, or None on any exception
decode_base64(data) ==
    LET std == ReplaceChar(ReplaceChar(data, "_", "/"), "-", "+")
        missing_padding == Len(std) % 4
        padded == IF missing_padding # 0
                  THEN std \o Padding(4 - missing_padding)
                  ELSE std
        raw == b64decode(padded)
        text == Utf8Decode(raw.bytes)
    IN  IF raw.ok /\ text.ok THEN Str(text.v) ELSE None

(***************************************************************************)
(* json.loads, as far as get_vmess_name needs it: a value is [t, v, truthy] *)
(* with t its Python type, v the text of a str or the (key, value) pairs   *)
(* of a dict, and truthy what `not value` negates                          *)
(***************************************************************************)
JsonFail == [ok |-> FALSE, val |-> None, next |-> 0]

JsonWs == {" ", "\t", "\n", CodePoint(13)}

JsonSkip(s, i) ==
    LET stop == {j \in i..Len(s) : s[j] \notin JsonWs}
    IN  IF stop = {} THEN Len(s) + 1 ELSE Min(stop)

\* the end of the run of digits that starts at i (i itself when there is none)
DigitsEnd(s, i) ==
    LET stop == {j \in i..Len(s) : s[j] \notin Digits}
    IN  IF stop = {} THEN Len(s) + 1 ELSE Min(stop)

AllZero(s, from, to) == \A j \in from..(to - 1) : s[j] = "0"

\* NUMBER_RE: (-?(?:0|[1-9]\d*))(\.\d+)?([eE][-+]?\d+)?
JsonNumber(s, i) ==
    LET d == IF i <= Len(s) /\ s[i] = "-" THEN i + 1 ELSE i
        intEnd == IF d <= Len(s) /\ s[d] = "0" THEN d + 1 ELSE DigitsEnd(s, d)
        fracEnd == IF intEnd <= Len(s) /\ s[intEnd] = "."
                      /\ DigitsEnd(s, intEnd + 1) > intEnd + 1
                   THEN DigitsEnd(s, intEnd + 1) ELSE intEnd
        e == IF fracEnd + 1 <= Len(s) /\ s[fracEnd] \in {"e", "E"}
                /\ s[fracEnd + 1] \in {"+", "-"}
             THEN fracEnd + 2 ELSE fracEnd + 1
        expEnd == IF fracEnd <= Len(s) /\ s[fracEnd] \in {"e", "E"}
                     /\ DigitsEnd(s, e) > e
                  THEN DigitsEnd(s, e) ELSE fracEnd
    IN  IF intEnd = d THEN JsonFail
        ELSE [ok |-> TRUE,
              val |-> [t |-> "num", v |-> <<>>,
                       truthy |-> ~(AllZero(s, d, intEnd)
                                    /\ AllZero(s, intEnd + 1, fracEnd))],
              next |-> expEnd]

JsonLiterals ==
    << <<<<"n","u","l","l">>, None>>,
       <<<<"t","r","u","e">>, [t |-> "bool", v |-> <<>>, truthy |-> TRUE]>>,
       <<<<"f","a","l","s","e">>, [t |-> "bool", v |-> <<>>, truthy |-> FALSE]>>,
       <<<<"N","a","N">>, [t |-> "num", v |-> <<>>, truthy |-> TRUE]>>,
       <<<<"I","n","f","i","n","i","t","y">>,
         [t |-> "num", v |-> <<>>, truthy |-> TRUE]>>,
       <<<<"-","I","n","f","i","n","i","t","y">>,
         [t |-> "num", v |-> <<>>, truthy |-> TRUE]>> >>

JsonLiteral(s, i) ==
    LET hit == {k \in 1..Len(JsonLiterals) : OccursAt(s, JsonLiterals[k][1], i)}
    IN  IF hit = {} THEN JsonNumber(s, i)
        ELSE LET k == Min(hit)
             IN  [ok |-> TRUE, val |-> JsonLiterals[k][2],
                  next |-> i + Len(JsonLiterals[k][1])]

SimpleEscapes ==
    << <<"\"", "\"">>, <<"\\", "\\">>, <<"/", "/">>, <<"b", CodePoint(8)>>,
       <<"f", CodePoint(12)>>, <<"n", "\n">>, <<"r", CodePoint(13)>>,
       <<"t", "\t">> >>

Hex4(s, i) ==
    /\ i + 3 <= Len(s)
    /\ \A j \in i..(i + 3) : s[j] \in HexDigits

Hex4Val(s, i) ==
    HexVal(s[i]) * 4096 + HexVal(s[i + 1]) * 256 + HexVal(s[i + 2]) * 16
        + HexVal(s[i + 3])

\* py_scanstring from the character after the opening quote: [ok, v, next].
\* The text up to the next quote, backslash or control character is taken
\* at once.
RECURSIVE JsonString(_, _)
JsonString(s, i) ==
    LET marks == {j \in i..Len(s) :
                     \/ s[j] \in {"\"", "\\"}
                     \/ (s[j] \in AsciiChars /\ Ord(s[j]) < 32)}
        stop == IF marks = {} THEN 0 ELSE Min(marks)
        chunk == Slice(s, i, stop)
        bad == [ok |-> FALSE, v |-> <<>>, next |-> 0]
    IN  IF stop = 0 THEN bad
        ELSE IF s[stop] = "\"" THEN [ok |-> TRUE, v |-> chunk, next |-> stop + 1]
        ELSE IF s[stop] # "\\" \/ stop + 1 > Len(s) THEN bad
        ELSE IF s[stop + 1] = "u"
        THEN IF ~Hex4(s, stop + 2) THEN bad
             ELSE LET hi == Hex4Val(s, stop + 2)
                      paired == /\ hi >= 55296 /\ hi <= 56319
                                /\ OccursAt(s, <<"\\", "u">>, stop + 6)
                                /\ Hex4(s, stop + 8)
                                /\ Hex4Val(s, stop + 8) >= 56320
                                /\ Hex4Val(s, stop + 8) <= 57343
                      point == IF paired
                               THEN 65536 + (hi - 55296) * 1024
                                        + (Hex4Val(s, stop + 8) - 56320)
                               ELSE hi
                      rest == JsonString(s, IF paired THEN stop + 12 ELSE stop + 6)
                  IN  [ok |-> rest.ok, v |-> chunk \o <<Chr(point)>> \o rest.v,
                       next |-> rest.next]
        ELSE LET esc == {k \in 1..Len(SimpleEscapes) :
                            SimpleEscapes[k][1] = s[stop + 1]}
             IN  IF esc = {} THEN bad
                 ELSE LET rest == JsonString(s, stop + 2)
                      IN  [ok |-> rest.ok,
                           v |-> chunk \o <<SimpleEscapes[Min(esc)][2]>> \o rest.v,
                           next |-> rest.next]

\* The decoder as a machine over [phase, i, stack, val].  phase "value":
\* scan_once reads the value that starts at i; "key": JSONObject reads a key
\* and its colon; "after": the value val ended before i and goes to the
\* container on top of the stack; "done" and "fail" end the run.  A frame of
\* the stack is an object or array being read: its type, the pairs read so
\* far, the key that waits for its value.
JsonState(phase, i, stack, val) ==
    [phase |-> phase, i |-> i, stack |-> stack, val |-> val]

JsonStop == JsonState("fail", 0, <<>>, None)

JsonFrame(type, pairs, key) == [t |-> type, pairs |-> pairs, key |-> key]

\* a scalar or a string read: [ok, val, next]
JsonScalarRead(st, read) ==
    IF read.ok THEN JsonState("after", read.next, st.stack, read.val)
    ELSE JsonStop

JsonStringValue(read) ==
    [ok |-> read.ok, val |-> Str(read.v), next |-> read.next]

\* an opening bracket at st.i, the text going on at j
JsonOpen(s, st, j, type, close) ==
    IF j <= Len(s) /\ s[j] = close
    THEN JsonState("after", j + 1, st.stack,
                   [t |-> type, v |-> <<>>, truthy |-> FALSE])
    ELSE JsonState(IF type = "dict" THEN "key" ELSE "value", j,
                   <<JsonFrame(type, <<>>, <<>>)>> \o st.stack, None)

JsonAtValue(s, st) ==
    IF st.i > Len(s) THEN JsonStop
    ELSE IF s[st.i] = "\""
    THEN JsonScalarRead(st, JsonStringValue(JsonString(s, st.i + 1)))
    ELSE IF s[st.i] = "{"
    THEN JsonOpen(s, st, JsonSkip(s, st.i + 1), "dict", "}")
    ELSE IF s[st.i] = "["
    THEN JsonOpen(s, st, JsonSkip(s, st.i + 1), "list", "]")
    ELSE JsonScalarRead(st, JsonLiteral(s, st.i))

\* the key read, the text going on at colon
JsonKeyRead(s, st, key, colon) ==
    IF ~key.ok \/ colon > Len(s) THEN JsonStop
    ELSE IF s[colon] # ":" THEN JsonStop
    ELSE JsonState("value", JsonSkip(s, colon + 1),
                   <<JsonFrame("dict", Head(st.stack).pairs, key.v)>>
                       \o Tail(st.stack),
                   None)

JsonKeyAt(s, st, key) == JsonKeyRead(s, st, key, JsonSkip(s, key.next))

JsonAtKey(s, st) ==
    IF st.i > Len(s) \/ s[st.i] # "\"" THEN JsonStop
    ELSE JsonKeyAt(s, st, JsonString(s, st.i + 1))

\* the value st.val goes to the frame top, the text going on at j
JsonInto(s, st, top, pairs, j) ==
    IF j > Len(s) THEN JsonStop
    ELSE IF s[j] = (IF top.t = "dict" THEN "}" ELSE "]")
    THEN JsonState("after", j + 1, Tail(st.stack),
                   [t |-> top.t, v |-> pairs, truthy |-> TRUE])
    ELSE IF s[j] # "," THEN JsonStop
    ELSE JsonState(IF top.t = "dict" THEN "key" ELSE "value",
                   JsonSkip(s, j + 1),
                   <<JsonFrame(top.t, pairs, <<>>)>> \o Tail(st.stack), None)

JsonAfterValue(s, st) ==
    IF st.stack = <<>> THEN JsonState("done", st.i, <<>>, st.val)
    ELSE JsonInto(s, st, Head(st.stack),
                  IF Head(st.stack).t = "dict"
                  THEN Append(Head(st.stack).pairs,
                              <<Head(st.stack).key, st.val>>)
                  ELSE <<>>,
                  JsonSkip(s, st.i))

JsonStep(s, st) ==
    IF st.phase = "value" THEN JsonAtValue(s, st)
    ELSE IF st.phase = "key" THEN JsonAtKey(s, st)
    ELSE JsonAfterValue(s, st)

RECURSIVE JsonRun(_, _)
JsonRun(s, st) ==
    IF st.phase \in {"done", "fail"} THEN st ELSE JsonRun(s, JsonStep(s, st))

\* json.loads(s): [ok, val]; ok is FALSE where json.loads raises
JsonEnd(s, st) ==
    IF st.phase = "done" /\ JsonSkip(s, st.i) > Len(s)
    THEN [ok |-> TRUE, val |-> st.val]
    ELSE [ok |-> FALSE, val |-> None]

json_loads(s) ==
    JsonEnd(s, JsonRun(s, JsonState("value", JsonSkip(s, 1), <<>>, None)))

\* dict.get(key): the value of the last pair with that key, or None
DictGet(pairs, key) ==
    LET hit == {k \in 1..Len(pairs) : pairs[k][1] = key}
    IN  IF hit = {} THEN None
        ELSE pairs[CHOOSE k \in hit : \A j \in hit : j <= k][2]

(***************************************************************************)
(* urllib.parse.parse_qs and the protocol name helpers (lines 68-99)       *)
(***************************************************************************)
\* str.split(sep) for a non-empty sep
RECURSIVE SplitFrom(_, _, _)
SplitFrom(s, sep, from) ==
    LET i == Find(s, sep, from)
    IN  IF i = 0 THEN <<Slice(s, from, Len(s) + 1)>>
        ELSE <<Slice(s, from, i)>> \o SplitFrom(s, sep, i + Len(sep))

Split(s, sep) == SplitFrom(s, sep, 1)

\* parse_qsl without blank values: the (name, value) pairs in order
RECURSIVE QsPairs(_)
QsPairs(fields) ==
    IF fields = <<>> THEN <<>>
    ELSE LET name_value == Head(fields)
             eq == Find(name_value, <<"=">>, 1)
             value == Slice(name_value, eq + 1, Len(name_value) + 1)
         IN  IF eq = 0 \/ value = <<>> THEN QsPairs(Tail(fields))
             ELSE << <<unquote(ReplaceChar(Slice(name_value, 1, eq), "+", " ")),
                       unquote(ReplaceChar(value, "+", " "))>> >>
                      \o QsPairs(Tail(fields))

parse_qsl(qs) == QsPairs(Split(qs, <<"&">>))

VmessPrefix == <<"v","m","e","s","s",":","/","/">>

SsrPrefix == <<"s","s","r",":","/","/">>

PsKey == <<"p","s">>

RemarksKey == <<"r","e","m","a","r","k","s">>

get_vmess_name(vmess_link) ==
    IF ~StartsWith(vmess_link, VmessPrefix) THEN None
    ELSE LET b64_part == Slice(vmess_link, 9, Len(vmess_link) + 1)
             decoded_str == decode_base64(b64_part)
         IN  IF ~decoded_str.truthy THEN None
             ELSE LET vmess_json == json_loads(decoded_str.v)
                  IN  IF ~vmess_json.ok THEN None
                      ELSE IF vmess_json.val.t # "dict" THEN None
                      ELSE DictGet(vmess_json.val.v, PsKey)

get_ssr_name(ssr_link) ==
    IF ~StartsWith(ssr_link, SsrPrefix) THEN None
    ELSE LET b64_part == Slice(ssr_link, 7, Len(ssr_link) + 1)
             decoded_str == decode_base64(b64_part)
         IN  IF ~decoded_str.truthy THEN None
             ELSE LET parts == Split(decoded_str.v, <<"/", "?">>)
                  IN  IF Len(parts) < 2 THEN None
                      ELSE LET params == parse_qsl(parts[2])
                               hit == {k \in 1..Len(params) :
                                          params[k][1] = RemarksKey}
                           IN  IF hit = {} THEN None
                               ELSE decode_base64(params[Min(hit)][2])

(***************************************************************************)
(* find_matches (lines 135-151)                                            *)
(*                                                                         *)
(* A protocol pattern of the keyword file is a scheme prefix followed by   *)
(* one character class repeated, as in vmess://[A-Za-z0-9+/=_-]+ and       *)
(* vless://[^\s]+ : [t |-> "pattern", prefix, cls].  An item that re       *)
(* cannot compile is [t |-> "badregex"], one that is no str [t |-> "num"]. *)
(***************************************************************************)
Pattern(prefix, cls) == [t |-> "pattern", prefix |-> prefix, cls |-> cls]

BadRegex == [t |-> "badregex", prefix |-> <<>>, cls |-> ""]

NotStr == [t |-> "num", prefix |-> <<>>, cls |-> ""]

\* an item of a country list that is no str
NotStrKeyword == [t |-> "num", v |-> <<>>, truthy |-> TRUE]

\* the characters a class matches under re.IGNORECASE
InClass(cls, c) ==
    IF cls = "b64"
    THEN c \in UpperLetters \cup LowerLetters \cup Digits \cup {"+", "/", "=", "_", "-"}
    ELSE c \notin Whitespace

\* the pattern matches at i: the prefix, whatever its case, then one
\* character of the class at least
MatchesAt(text, lowered, prefix, cls, i) ==
    /\ OccursAt(lowered, prefix, i)
    /\ i + Len(prefix) <= Len(text)
    /\ InClass(cls, text[i + Len(prefix)])

\* the positions where the pattern matches
MatchStarts(text, lowered, prefix, cls) ==
    {i \in 1..Len(text) : MatchesAt(text, lowered, prefix, cls, i)}

\* the positions where the class ends a match
ClassStops(text, cls) == {j \in 1..Len(text) : ~InClass(cls, text[j])}

\* the end of the match that starts at start: the class goes as far as it
\* can
MatchEnd(text, pattern, stops, start) ==
    Min({j \in stops : j >= start + Len(pattern.prefix)} \cup {Len(text) + 1})

\* pattern.findall(text) from a position: the leftmost match, then the
\* matches after its end
RECURSIVE FindAllFrom(_, _, _, _, _)
FoundAt(text, pattern, starts, stops, start, end) ==
    {Slice(text, start, end)} \cup FindAllFrom(text, pattern, starts, stops, end)

FindAllFrom(text, pattern, starts, stops, from) ==
    IF \A i \in starts : i < from THEN {}
    ELSE FoundAt(text, pattern, starts, stops,
                 Min({i \in starts : i >= from}),
                 MatchEnd(text, pattern, stops, Min({i \in starts : i >= from})))

findall(text, pattern) ==
    FindAllFrom(text, pattern,
                MatchStarts(text, Lower(text), Lower(pattern.prefix), pattern.cls),
                ClassStops(text, pattern.cls), 1)

\* cleaned_found of one pattern: {item.strip() for item in found if item.strip()}
cleaned_found(text, pattern) ==
    IF pattern.t # "pattern" THEN {}
    ELSE {Strip(item) : item \in findall(text, pattern)} \ {<<>>}

\* matches[category] for one category of categories_data
CategoryMatches(text, patterns) ==
    UNION {cleaned_found(text, patterns[k]) : k \in 1..Len(patterns)}

\* find_matches(text, categories_data): the categories with a match, each
\* with its set of matches.  categories_data is the sequence of the
\* [cat, items] entries of the mapping, in its order.
find_matches(text, categories_data) ==
    {m \in {[cat |-> categories_data[k].cat,
             configs |-> CategoryMatches(text, categories_data[k].items)] :
                k \in 1..Len(categories_data)} :
        m.configs # {}}

(***************************************************************************)
(* Name resolution and country matching in main (lines 340-403)            *)
(***************************************************************************)
\* is_persian_like (lines 35-54)
is_persian_like(text) ==
    IF Strip(text) = <<>> THEN FALSE
    ELSE LET has_persian_char == \E i \in 1..Len(text) : text[i] \in ArabicScript
             has_latin_char ==
                 \E i \in 1..Len(text) : LowerChar(text[i]) \in LowerLetters
         IN  has_persian_char /\ ~has_latin_char

\* the variant of lines 341-351 that asks the payload for a name before
\* the fragment
name_to_check_payload_first(config) ==
    LET hash == Find(config, <<"#">>, 1)
        potential_name == Slice(config, hash + 1, Len(config) + 1)
        fragment == IF hash = 0 THEN None ELSE Str(Strip(unquote(potential_name)))
        payload == IF StartsWith(config, SsrPrefix) THEN get_ssr_name(config)
                   ELSE IF StartsWith(config, VmessPrefix) THEN get_vmess_name(config)
                   ELSE None
    IN  IF payload.truthy THEN payload ELSE fragment

\* lines 341-351: the fragment after the first '#', unquoted and stripped,
\* else the name the ssr or vmess payload carries
name_to_check(config) ==
    LET hash == Find(config, <<"#">>, 1)
        potential_name == Slice(config, hash + 1, Len(config) + 1)
        fragment == IF hash = 0 THEN None ELSE Str(Strip(unquote(potential_name)))
    IN  IF fragment.truthy THEN fragment
        ELSE IF StartsWith(config, SsrPrefix) THEN get_ssr_name(config)
        ELSE IF StartsWith(config, VmessPrefix) THEN get_vmess_name(config)
        ELSE None

\* line 355
current_name_to_check_str(name) == IF name.t = "str" THEN name.v ELSE <<>>

\* lines 367-369 and 378-383: a short item that is not purely alphanumeric
\* is an emoji or a code for display, not a keyword to search for
IsDisplayToken(kw) == (1 <= Len(kw) /\ Len(kw) <= 7) /\ ~IsAlnum(kw)

\* whether the item kw of country_name_key's list is appended to
\* text_keywords_for_country: lines 362-373 on the HEAD side of the
\* conflict, lines 377-384 on the other side
KeepsKeyword(side, country_name_key, kw) ==
    IF kw.t # "str" THEN FALSE
    ELSE IF IsDisplayToken(kw.v) THEN FALSE
    ELSE IF side # "HEAD" THEN TRUE
    ELSE IF ~is_persian_like(kw.v) THEN TRUE
    ELSE Lower(kw.v) = Lower(country_name_key)

text_keywords_for_country(side, country_name_key, keywords) ==
    SelectSeq(keywords, LAMBDA kw : KeepsKeyword(side, country_name_key, kw))

\* re.match(r'^[A-Z]+$', keyword): $ also matches before a final newline
MatchesUpperOnly(keyword) ==
    LET n == IF Len(keyword) >= 1 /\ keyword[Len(keyword)] = "\n"
             THEN Len(keyword) - 1 ELSE Len(keyword)
    IN  n >= 1 /\ \A i \in 1..n : keyword[i] \in UpperLetters

\* line 390
is_abbr(keyword) ==
    (Len(keyword) = 2 \/ Len(keyword) = 3) /\ MatchesUpperOnly(keyword)

\* \b at the gap before position p: a word character on one side only
WordBoundary(s, p) ==
    LET word(k) == k >= 1 /\ k <= Len(s) /\ IsWordChar(s[k])
    IN  word(p - 1) # word(p)

\* re.search(r'\b' + re.escape(keyword) + r'\b', name, re.IGNORECASE)
SearchWord(keyword, name) ==
    \E i \in 1..(Len(name) + 1) :
        /\ OccursAt(Lower(name), Lower(keyword), i)
        /\ WordBoundary(name, i)
        /\ WordBoundary(name, i + Len(keyword))

\* the variant of lines 389-398 without the branch for abbreviations
KeywordMatchesAnywhere(keyword, name) ==
    Contains(Lower(name), Lower(keyword))

\* lines 389-398: match_found after the body of the keyword loop
KeywordMatches(keyword, name) ==
    IF is_abbr(keyword) THEN SearchWord(keyword, name)
    ELSE Contains(Lower(name), Lower(keyword))

\* lines 357-403 from the k-th country on, for one config: the country whose
\* bucket receives the config ("" when none does), match_found afterwards
\* ("unbound" while the name was never assigned) and whether line 403 raised
\* UnboundLocalError.  country_keywords is the sequence of [cat, key, items].
RECURSIVE ScanCountries(_, _, _, _, _)
ScanCountries(side, country_keywords, name, k, found) ==
    IF k > Len(country_keywords)
    THEN [added |-> "", match_found |-> found, raised |-> FALSE]
    ELSE LET country == country_keywords[k]
             keywords == text_keywords_for_country(side, country.key,
                                                   country.items)
             matched == \E i \in 1..Len(keywords) : KeywordMatches(keywords[i].v, name)
             after == IF keywords = <<>> THEN found
                      ELSE IF matched THEN "true" ELSE "false"
         IN  IF matched
             THEN [added |-> country.cat, match_found |-> "true", raised |-> FALSE]
             ELSE IF after = "unbound"
             THEN [added |-> "", match_found |-> after, raised |-> TRUE]
             ELSE IF after = "true"
             THEN [added |-> "", match_found |-> after, raised |-> FALSE]
             ELSE ScanCountries(side, country_keywords, name, k + 1, after)

(***************************************************************************)
(* The inputs: what the addresses of urls.txt serve, and keywords.json      *)
(***************************************************************************)
\* s repeated n times
Repeat(s, n) == [i \in 1..(n * Len(s)) |-> s[((i - 1) % Len(s)) + 1]]

\* the lines, each ended by a newline, as the text of a page
RECURSIVE Lines(_)
Lines(ls) == IF ls = <<>> THEN <<>> ELSE Head(ls) \o <<"\n">> \o Lines(Tail(ls))

\* vmess://eyJwcyI6Ikdlcm1hbnkgMSJ9 (the payload is {"ps":"Germany 1"})
ConfigVmessGermany ==
    <<"v","m","e","s","s",":","/","/","e","y","J","w","c","y","I","6","I",
      "k","d","l","c","m","1","h","b","n","k","g","M","S","J","9">>

\* vmess://eyJwcyI6Ikdlcm1hbnkgMSJ9#US%20Server%201
ConfigVmessFragment ==
    <<"v","m","e","s","s",":","/","/","e","y","J","w","c","y","I","6","I",
      "k","d","l","c","m","1","h","b","n","k","g","M","S","J","9","#","U",
      "S","%","2","0","S","e","r","v","e","r","%","2","0","1">>

\* vless://u@h:443#US%20Server%201
ConfigVlessUS ==
    <<"v","l","e","s","s",":","/","/","u","@","h",":","4","4","3","#","U",
      "S","%","2","0","S","e","r","v","e","r","%","2","0","1">>

\* vless://u@h:443#USER-42
ConfigVlessUser ==
    <<"v","l","e","s","s",":","/","/","u","@","h",":","4","4","3","#","U",
      "S","E","R","-","4","2">>

\* vless://u@h:443#bus-01
ConfigVlessBus ==
    <<"v","l","e","s","s",":","/","/","u","@","h",":","4","4","3","#","b",
      "u","s","-","0","1">>

\* a vless link with %25 20 times
ConfigVlessPct20 ==
    <<"v","l","e","s","s",":","/","/","u","@","h",":","1","?","p","=">>
        \o Repeat(<<"%","2","5">>, 20)
        \o <<"#","D","E">>

\* ssr://aDoxOm9yaWdpbjphZXM6cGxhaW46Y0dGem ... RnTWcmZ3JvdXA9WjNKdw (remarks is "Japan 2")
ConfigSsrJapan ==
    <<"s","s","r",":","/","/","a","D","o","x","O","m","9","y","a","W","d",
      "p","b","j","p","h","Z","X","M","6","c","G","x","h","a","W","4","6",
      "Y","0","d","G","e","m","N","3","L","z","9","y","Z","W","1","h","c",
      "m","t","z","P","V","N","t","R","n","d","Z","V","z","R","n","T","W",
      "c","m","Z","3","J","v","d","X","A","9","W","j","N","K","d","w">>

\* ssr://aDoxOm9yaWdpbjphZXM6cGxhaW46Y0dGem ... WcmZ3JvdXA9WjNKdw#US (remarks is "Japan 2", the fragment US)
ConfigSsrFragment ==
    <<"s","s","r",":","/","/","a","D","o","x","O","m","9","y","a","W","d",
      "p","b","j","p","h","Z","X","M","6","c","G","x","h","a","W","4","6",
      "Y","0","d","G","e","m","N","3","L","z","9","y","Z","W","1","h","c",
      "m","t","z","P","V","N","t","R","n","d","Z","V","z","R","n","T","W",
      "c","m","Z","3","J","v","d","X","A","9","W","j","N","K","d","w","#",
      "U","S">>

\* vmess://eyJhZGQiOiJoIn0 ({"add":"h"})
ConfigVmessNoPs ==
    <<"v","m","e","s","s",":","/","/","e","y","J","h","Z","G","Q","i","O",
      "i","J","o","I","n","0">>

\* vmess://eyJwcyI6NX0 ({"ps":5})
ConfigVmessPsNumber ==
    <<"v","m","e","s","s",":","/","/","e","y","J","w","c","y","I","6","N",
      "X","0">>

\* vmess://eyJwcyI6 ({"ps": cut short)
ConfigVmessBroken ==
    <<"v","m","e","s","s",":","/","/","e","y","J","w","c","y","I","6">>

\* trojan://p@h:1#I_LOVE_Japan
ConfigTrojanLove ==
    <<"t","r","o","j","a","n",":","/","/","p","@","h",":","1","#","I","_",
      "L","O","V","E","_","J","a","p","a","n">>

\* trojan://p@h:1#%D8%A2%D9%84%D9%85%D8%A7%D9%86 (the fragment is the Persian name of Germany)
ConfigTrojanPersian ==
    <<"t","r","o","j","a","n",":","/","/","p","@","h",":","1","#","%","D",
      "8","%","A","2","%","D","9","%","8","4","%","D","9","%","8","5","%",
      "D","8","%","A","7","%","D","9","%","8","6">>

\* a vless link of 1500 characters
ConfigVlessLen1500 ==
    <<"v","l","e","s","s",":","/","/">>
        \o Repeat(<<"a">>, 1489)
        \o <<"#","D","E">>

\* a vless link of 1499 characters
ConfigVlessLen1499 ==
    <<"v","l","e","s","s",":","/","/">>
        \o Repeat(<<"a">>, 1488)
        \o <<"#","D","E">>

\* a vless link with %25 15 times
ConfigVlessPct15 ==
    <<"v","l","e","s","s",":","/","/","u","@","h",":","1","?","p","=">>
        \o Repeat(<<"%","2","5">>, 15)
        \o <<"#","G","e","r","m","a","n","y">>

\* a vless link with %25 14 times
ConfigVlessPct14 ==
    <<"v","l","e","s","s",":","/","/","u","@","h",":","1","?","p","=">>
        \o Repeat(<<"%","2","5">>, 14)
        \o <<"#","G","e","r","m","a","n","y">>

\* trojan://p@h:1#a%2525b
ConfigTrojan2525 ==
    <<"t","r","o","j","a","n",":","/","/","p","@","h",":","1","#","a","%",
      "2","5","2","5","b">>

\* trojan://p@h:1#Germany%20US
ConfigTrojanBoth ==
    <<"t","r","o","j","a","n",":","/","/","p","@","h",":","1","#","G","e",
      "r","m","a","n","y","%","2","0","U","S">>

NoticeLine ==
    <<"F","r","e","e"," ","c","o","n","f","i","g","s",":">>

PageMixed ==
    Lines(<<NoticeLine,
            ConfigVmessGermany,
            ConfigVlessUS,
            (<<" "," ">> \o ConfigVlessUser \o <<" "," ">>),
            ConfigVlessPct20,
            ConfigVmessFragment,
            ConfigVlessBus>>)

PageNames ==
    Lines(<<ConfigSsrFragment,
            ConfigVmessNoPs,
            ConfigVmessGermany,
            (ConfigVmessBroken \o <<" ",".">>),
            ConfigTrojanBoth>>)

PageLimits ==
    Lines(<<ConfigVlessLen1500,
            ConfigVlessLen1499,
            ConfigVlessPct15,
            ConfigVlessPct14,
            ConfigTrojan2525,
            ConfigTrojanLove,
            ConfigTrojanPersian,
            ConfigVmessPsNumber>>)

PageEmpty == <<>>

\* the text fetch_url extracts from what each address serves; an address
\* is its index here
Web == <<PageMixed, PageNames, PageLimits, PageEmpty>>

Addresses == 1..Len(Web)

\* one entry of the mapping keywords.json holds: the category, its name as
\* text, and its list
Entry(cat, key, items) == [cat |-> cat, key |-> key, items |-> items]

KwGermany == <<"G","e","r","m","a","n","y">>

KwDE == <<"D","E">>

KwFlagDE == <<"U+127465","U+127466">>

KwPersianGermany == <<"U+1570","U+1604","U+1605","U+1575","U+1606">>

KwUnitedStates == <<"U","n","i","t","e","d"," ","S","t","a","t","e","s">>

KwUS == <<"U","S">>

KwUSA == <<"U","S","A">>

KwFlagUS == <<"U+127482","U+127480">>

KwJapan == <<"J","a","p","a","n">>

KwJP == <<"J","P">>

KwUnknown == <<"U","n","k","n","o","w","n">>

KwFlags == <<"F","l","a","g","s">>

KwHashOne == <<"#","1">>

VlessPrefix == <<"v","l","e","s","s",":","/","/">>

TrojanPrefix == <<"t","r","o","j","a","n",":","/","/">>

\* protocol patterns and three countries
KeywordsPlain ==
    <<Entry("Vmess", <<>>,
             <<Pattern(VmessPrefix, "b64")>>),
      Entry("Vless", <<>>,
             <<Pattern(VlessPrefix, "nonspace")>>),
      Entry("ShadowSocksR", <<>>,
             <<Pattern(SsrPrefix, "b64")>>),
      Entry("Trojan", <<>>,
             <<Pattern(TrojanPrefix, "nonspace")>>),
      Entry("Germany", KwGermany,
             <<Str(KwGermany), Str(KwDE), Str(KwFlagDE), Str(KwPersianGermany)>>),
      Entry("United States", KwUnitedStates,
             <<Str(KwUnitedStates), Str(KwUS), Str(KwUSA), Str(KwFlagUS)>>),
      Entry("Japan", KwJapan,
             <<Str(KwJapan), Str(KwJP)>>)>>

\* the first country has an empty list
KeywordsEmptyFirst ==
    <<Entry("Vmess", <<>>,
             <<Pattern(VmessPrefix, "b64")>>),
      Entry("Vless", <<>>,
             <<Pattern(VlessPrefix, "nonspace")>>),
      Entry("Unknown", KwUnknown,
             <<>>),
      Entry("United States", KwUnitedStates,
             <<Str(KwUnitedStates), Str(KwUS), Str(KwUSA), Str(KwFlagUS)>>),
      Entry("Germany", KwGermany,
             <<Str(KwGermany), Str(KwDE), Str(KwFlagDE), Str(KwPersianGermany)>>)>>

\* a country in the middle holds display tokens only; the Vmess and the
\* ShadowSocksR pattern take the fragment too
KeywordsFlagsOnly ==
    <<Entry("Germany", KwGermany,
             <<Str(KwGermany), Str(KwDE), Str(KwFlagDE), Str(KwPersianGermany)>>),
      Entry("Vmess", <<>>,
             <<Pattern(VmessPrefix, "nonspace")>>),
      Entry("Vless", <<>>,
             <<Pattern(VlessPrefix, "nonspace")>>),
      Entry("ShadowSocksR", <<>>,
             <<Pattern(SsrPrefix, "nonspace")>>),
      Entry("Trojan", <<>>,
             <<Pattern(TrojanPrefix, "nonspace")>>),
      Entry("Flags", KwFlags,
             <<Str(KwFlagDE), Str(KwHashOne)>>),
      Entry("United States", KwUnitedStates,
             <<Str(KwUnitedStates), Str(KwUS), Str(KwUSA), Str(KwFlagUS)>>),
      Entry("Japan", KwJapan,
             <<NotStrKeyword, Str(KwJapan), Str(KwJP)>>)>>

\* the Trojan list also holds the vless pattern
KeywordsOverlap ==
    <<Entry("Vmess", <<>>,
             <<Pattern(VmessPrefix, "b64")>>),
      Entry("Vless", <<>>,
             <<Pattern(VlessPrefix, "nonspace")>>),
      Entry("Trojan", <<>>,
             <<Pattern(TrojanPrefix, "nonspace"), Pattern(VlessPrefix, "nonspace")>>),
      Entry("United States", KwUnitedStates,
             <<Str(KwUS)>>),
      Entry("Germany", KwGermany,
             <<Str(KwGermany)>>)>>

\* no country; a pattern re rejects and an item that is no str
KeywordsNoCountry ==
    <<Entry("Vmess", <<>>,
             <<BadRegex, NotStr, Pattern(VmessPrefix, "nonspace")>>),
      Entry("Trojan", <<>>,
             <<Pattern(TrojanPrefix, "nonspace")>>)>>

KeywordFiles == <<KeywordsPlain, KeywordsEmptyFirst, KeywordsFlagsOnly, KeywordsOverlap, KeywordsNoCountry>>

(***************************************************************************)
(* main (lines 289-430) as a state machine                                 *)
(***************************************************************************)
\* the longest urls.txt of Spec
MaxUrls == 2

\* the length of urls.txt in SpecFetch: more addresses than the semaphore
\* admits at once
NumFetchUrls == 11

\* the writes that fail in one run, at most
MaxWriteFailures == 1

\* the fetches that fail in one run, at most
MaxFetchFailures == 2

VARIABLES
    branch,                     \* the side of the merge conflict that runs
    keyword_file,               \* categories_data, as an index of KeywordFiles
    urls,                       \* the addresses read from urls.txt
    task,                       \* where each fetch_with_sem task stands
    sem_value,                  \* sem._value
    waiters,                    \* the tasks queued in sem.acquire()
    attempts,                   \* the calls of fetch_url per entry of urls
    fetched_pages,              \* what gather collects: (url, text) per task
    pc,                         \* where main stands
    page,                       \* the index of the for loop of line 326
    all_page_configs_after_filter,
    classified,                 \* the configs the loop of line 340 is done with
    current_config,             \* the loop variable of line 340
    current_name,               \* name_to_check after line 351
    match_found,                \* "unbound" until line 389 first assigns it
    final_all_protocols,
    final_configs_by_country,
    save_index,                 \* the position in the loops of lines 413, 417
    files,                      \* the files of OUTPUT_DIR and their lines
    protocol_counts,
    country_counts,
    filter_warnings,            \* the warnings should_filter_config logged
    write_errors                \* the categories save_to_file logged an error for

vars ==
    <<branch, keyword_file, urls, task, sem_value, waiters, attempts,
      fetched_pages, pc, page, all_page_configs_after_filter, classified,
      current_config, current_name, match_found, final_all_protocols,
      final_configs_by_country, save_index, files, protocol_counts,
      country_counts, filter_warnings, write_errors>>

fetchVars == <<task, sem_value, waiters, attempts, fetched_pages>>

inputVars == <<branch, keyword_file, urls>>

pageVars == <<page, all_page_configs_after_filter, classified,
              current_config, current_name,
              match_found>>

bucketVars == <<final_all_protocols, final_configs_by_country>>

outputVars == <<save_index, files, protocol_counts, country_counts,
                write_errors>>

ProtocolSet == Range(PROTOCOL_CATEGORIES)

categories_data == KeywordFiles[keyword_file]

\* lines 303-305
ProtocolPatterns(data) == SelectSeq(data, LAMBDA e : e.cat \in ProtocolSet)

\* lines 306-308
CountryKeywords(data) == SelectSeq(data, LAMBDA e : e.cat \notin ProtocolSet)

protocol_patterns_for_matching == ProtocolPatterns(categories_data)

country_keywords_for_naming == CountryKeywords(categories_data)

\* line 309
country_category_names ==
    [k \in 1..Len(country_keywords_for_naming) |-> country_keywords_for_naming[k].cat]

\* find_matches for each keyword file and each address, computed once
PageMatches ==
    <<>> @@ [k \in 1..Len(KeywordFiles) |->
                <<>> @@ [a \in Addresses |->
                    find_matches(Web[a], ProtocolPatterns(KeywordFiles[k]))]]

\* line 330
page_protocol_matches(url) == PageMatches[keyword_file][url]

\* every match of every page under every keyword file
AllConfigs ==
    UNION {m.configs : m \in UNION {PageMatches[k][a] :
                                        k \in 1..Len(KeywordFiles), a \in Addresses}}

\* the log line of should_filter_config for a config (lines 103-115), ""
\* when it logs nothing
FilterWarning(c) ==
    IF Contains(Lower(c), ILoveMarker) THEN "keyword"
    ELSE IF Count(c, Percent25) >= MIN_PERCENT25_COUNT THEN "percent25"
    ELSE IF Len(c) >= MAX_CONFIG_LENGTH THEN "length"
    ELSE IF Contains(c, Percent2525) THEN "percent2525"
    ELSE ""

\* should_filter_config and its warning for every config, computed once
Filtered ==
    <<>> @@ [c \in AllConfigs |-> [drop |-> should_filter_config(c),
                                   warning |-> FilterWarning(c)]]

\* the variant of lines 334-337 without the test of line 335
PassFilterUnchecked(configs_found) == configs_found

\* lines 334-337: the configs of one category that go on
PassFilter(configs_found) == {c \in configs_found : ~Filtered[c].drop}

\* name_to_check for every config, computed once
ResolvedName == <<>> @@ [c \in AllConfigs |-> name_to_check(c)]

TaskSet == 1..Len(urls)

InFlight == {i \in TaskSet : task[i] = "fetching"}

EmptyMap == [c \in {} |-> 0]

(***************************************************************************)
(* The fetch stage (lines 314-320, fetch_url lines 118-133)                *)
(***************************************************************************)
InitCommon ==
    /\ branch \in {"HEAD", "80b6e0f"}
    /\ keyword_file \in 1..Len(KeywordFiles)
    /\ task = [i \in TaskSet |-> "created"]
    /\ sem_value = CONCURRENT_REQUESTS
    /\ waiters = <<>>
    /\ attempts = [i \in TaskSet |-> 0]
    /\ fetched_pages = [i \in TaskSet |-> [url |-> urls[i], text |-> "pending"]]
    /\ pc = "gather"
    /\ page = 0
    /\ all_page_configs_after_filter = {}
    /\ classified = {}
    /\ current_config = <<>>
    /\ current_name = None
    /\ match_found = "unbound"
    /\ final_all_protocols = EmptyMap
    /\ final_configs_by_country = EmptyMap
    /\ save_index = 0
    /\ files = EmptyMap
    /\ protocol_counts = EmptyMap
    /\ country_counts = EmptyMap
    /\ filter_warnings = {}
    /\ write_errors = {}

\* the lists of different addresses, MaxUrls long at most
UrlLists ==
    {s \in UNION {[1..n -> Addresses] : n \in 0..MaxUrls} :
        \A i, j \in 1..Len(s) : i # j => s[i] # s[j]}

Init ==
    /\ urls \in UrlLists
    /\ InitCommon

InitFetch ==
    /\ urls = [i \in 1..NumFetchUrls |-> ((i - 1) % Len(Web)) + 1]
    /\ InitCommon
    /\ branch = "HEAD"
    /\ keyword_file = 1

\* the variant of fetch_with_sem without `async with sem`: fetch_url is
\* called at once
StartTaskWithoutSem(i) ==
    /\ pc = "gather"
    /\ task[i] = "created"
    /\ \A j \in 1..(i - 1) : task[j] # "created"
    /\ sem_value' = sem_value - 1
    /\ task' = [task EXCEPT ![i] = "fetching"]
    /\ attempts' = [attempts EXCEPT ![i] = @ + 1]
    /\ UNCHANGED <<waiters, fetched_pages, inputVars, pc, pageVars, bucketVars,
                   outputVars, filter_warnings>>

\* The first step of task i, in the order gather created the tasks:
\* `async with sem` takes the semaphore when it is free and nobody queues,
\* and fetch_url is called; otherwise the task queues.
StartTask(i) ==
    /\ pc = "gather"
    /\ task[i] = "created"
    /\ \A j \in 1..(i - 1) : task[j] # "created"
    /\ IF sem_value > 0 /\ waiters = <<>>
       THEN /\ sem_value' = sem_value - 1
            /\ task' = [task EXCEPT ![i] = "fetching"]
            /\ attempts' = [attempts EXCEPT ![i] = @ + 1]
            /\ UNCHANGED waiters
       ELSE /\ waiters' = Append(waiters, i)
            /\ task' = [task EXCEPT ![i] = "waiting"]
            /\ UNCHANGED <<sem_value, attempts>>
    /\ UNCHANGED <<fetched_pages, inputVars, pc, pageVars, bucketVars,
                   outputVars, filter_warnings>>

\* sem.release() has woken the first task of the queue: it takes the
\* semaphore and calls fetch_url
WakeWaiter ==
    /\ pc = "gather"
    /\ waiters # <<>>
    /\ sem_value > 0
    /\ sem_value' = sem_value - 1
    /\ task' = [task EXCEPT ![Head(waiters)] = "fetching"]
    /\ attempts' = [attempts EXCEPT ![Head(waiters)] = @ + 1]
    /\ waiters' = Tail(waiters)
    /\ UNCHANGED <<fetched_pages, inputVars, pc, pageVars, bucketVars,
                   outputVars, filter_warnings>>

\* what leaving `async with sem` does to the task and the semaphore
Release(i) ==
    /\ task' = [task EXCEPT ![i] = "done"]
    /\ sem_value' = sem_value + 1

\* fetch_url returns (url, text_content): lines 120-130
FetchOk(i) ==
    /\ pc = "gather"
    /\ task[i] = "fetching"
    /\ fetched_pages' = [fetched_pages EXCEPT ![i].text = "text"]
    /\ Release(i)
    /\ UNCHANGED <<waiters, attempts, inputVars, pc, pageVars, bucketVars,
                   outputVars, filter_warnings>>

\* the variant of fetch_with_sem in which an exception path of fetch_url
\* leaves without sem.release()
FetchFailKeepsSlot(i) ==
    /\ pc = "gather"
    /\ task[i] = "fetching"
    /\ Cardinality({j \in TaskSet : fetched_pages[j].text = "None"})
           < MaxFetchFailures
    /\ fetched_pages' = [fetched_pages EXCEPT ![i].text = "None"]
    /\ task' = [task EXCEPT ![i] = "done"]
    /\ UNCHANGED <<sem_value, waiters, attempts, inputVars, pc, pageVars,
                   bucketVars, outputVars, filter_warnings>>

\* a timeout, a status raise_for_status rejects or a transport error:
\* fetch_url logs it and returns (url, None), lines 131-133
FetchFail(i) ==
    /\ pc = "gather"
    /\ task[i] = "fetching"
    /\ Cardinality({j \in TaskSet : fetched_pages[j].text = "None"})
           < MaxFetchFailures
    /\ fetched_pages' = [fetched_pages EXCEPT ![i].text = "None"]
    /\ Release(i)
    /\ UNCHANGED <<waiters, attempts, inputVars, pc, pageVars, bucketVars,
                   outputVars, filter_warnings>>

\* gather returns once every task is done (line 320); lines 322-323 set up
\* the buckets
GatherReturn ==
    /\ pc = "gather"
    /\ \A i \in TaskSet : task[i] = "done"
    /\ pc' = "pages"
    /\ page' = 1
    /\ final_configs_by_country' =
           [c \in Range(country_category_names) |-> {}]
    /\ final_all_protocols' = [c \in ProtocolSet |-> {}]
    /\ UNCHANGED <<fetchVars, inputVars, all_page_configs_after_filter,
                   classified, current_config, current_name, match_found,
                   outputVars,
                   filter_warnings>>

(***************************************************************************)
(* Extraction, filtering and classification (lines 326-403)                *)
(***************************************************************************)
\* the text of the page the loop of line 326 stands at
PageFetched == fetched_pages[page].text = "text"

PageText == Web[fetched_pages[page].url]

\* line 327: `if not text: continue`
SkipPage ==
    /\ pc = "pages"
    /\ page <= Len(fetched_pages)
    /\ ~PageFetched \/ PageText = <<>>
    /\ page' = page + 1
    /\ UNCHANGED <<fetchVars, inputVars, pc, all_page_configs_after_filter,
                   classified, current_config, current_name, match_found,
                   bucketVars,
                   outputVars, filter_warnings>>

\* the configs of the matches that line 337 adds
AfterFilter(matches) ==
    UNION {PassFilter(m.configs) : m \in {x \in matches : x.cat \in ProtocolSet}}

\* the configs of the matches that line 336 skips
Rejected(matches) ==
    UNION {m.configs \ PassFilter(m.configs) :
              m \in {x \in matches : x.cat \in ProtocolSet}}

\* the variant of line 338 with = for add: a bucket holds what the last
\* page with a match for it yielded
AddToProtocolsLastPage(buckets, matches) ==
    [c \in DOMAIN buckets |->
        IF \E x \in matches : x.cat = c
        THEN UNION {PassFilter(m.configs) : m \in {x \in matches : x.cat = c}}
        ELSE buckets[c]]

\* the variant of line 338 that adds what the page yielded to the bucket of
\* every category the page has a match for
AddToProtocolsOfPage(buckets, matches) ==
    [c \in DOMAIN buckets |->
        buckets[c] \cup
            IF \E x \in matches : x.cat = c
            THEN UNION {PassFilter(m.configs) : m \in matches}
            ELSE {}]

\* line 338 for every match: the protocol buckets after the page
AddToProtocols(buckets, matches) ==
    [c \in DOMAIN buckets |->
        buckets[c] \cup
            UNION {PassFilter(m.configs) : m \in {x \in matches : x.cat = c}}]

\* lines 330-338 for a page with these matches: passing are the configs
\* that go on, rejected those should_filter_config stops
Extracted(matches, passing, rejected) ==
    /\ all_page_configs_after_filter' = passing
    /\ final_all_protocols' = AddToProtocols(final_all_protocols, matches)
    /\ filter_warnings' = filter_warnings \cup
           {[warning |-> Filtered[c].warning, config |-> c] : c \in rejected}
    /\ IF passing = {}
       THEN pc' = "pages" /\ page' = page + 1
       ELSE pc' = "configs" /\ page' = page

Extract(matches) == Extracted(matches, AfterFilter(matches), Rejected(matches))

\* lines 330-338 for one page
ExtractAndFilter ==
    /\ pc = "pages"
    /\ page <= Len(fetched_pages)
    /\ PageFetched /\ PageText # <<>>
    /\ Extract(page_protocol_matches(fetched_pages[page].url))
    /\ classified' = {}
    /\ UNCHANGED <<fetchVars, inputVars, current_config, current_name,
                   match_found, final_configs_by_country, outputVars>>

\* the country buckets after line 401 for a config
AddToCountry(buckets, country, c) ==
    IF country = "" THEN buckets
    ELSE [buckets EXCEPT ![country] = @ \cup {c}]

\* what lines 353-403 do for a config with the name resolved
Classify(resolved, found_before) ==
    IF ~resolved.truthy
    THEN [added |-> "", match_found |-> found_before, raised |-> FALSE]
    ELSE ScanCountries(branch, country_keywords_for_naming,
                       current_name_to_check_str(resolved), 1, found_before)

\* lines 353-403 done for config c with this result
Classified(c, result) ==
    /\ match_found' = result.match_found
    /\ final_configs_by_country' =
           AddToCountry(final_configs_by_country, result.added, c)
    /\ IF result.raised
       THEN /\ pc' = "raised"
            /\ UNCHANGED <<classified, page>>
       ELSE /\ classified' = classified \cup {c}
            /\ IF classified' = all_page_configs_after_filter
               THEN pc' = "pages" /\ page' = page + 1
               ELSE pc' = "configs" /\ page' = page

\* lines 341-351 done for config c with this name
Named(c, resolved) ==
    /\ current_name' = resolved
    /\ Classified(c, Classify(resolved, match_found))

\* one turn of the loop of line 340, for a config the set iteration
\* yields
ClassifyConfig(c) ==
    /\ pc = "configs"
    /\ c \in all_page_configs_after_filter \ classified
    /\ current_config' = c
    /\ Named(c, ResolvedName[c])
    /\ UNCHANGED <<fetchVars, inputVars, all_page_configs_after_filter,
                   final_all_protocols, outputVars, filter_warnings>>

(***************************************************************************)
(* The output stage (lines 405-430, save_to_file lines 154-167)            *)
(***************************************************************************)
\* lines 405-411: the output directory is emptied
PrepareOutput ==
    /\ pc = "pages"
    /\ page > Len(fetched_pages)
    /\ pc' = "save_protocols"
    /\ save_index' = 1
    /\ files' = EmptyMap
    /\ protocol_counts' = EmptyMap
    /\ country_counts' = EmptyMap
    /\ UNCHANGED <<fetchVars, inputVars, pageVars, bucketVars, write_errors,
                   filter_warnings>>

\* str < str, for the ASCII text the pages of the model hold: the first
\* character that differs decides, else the length
DiffersAt(a, b, i) == a[i] # b[i] /\ \A j \in 1..(i - 1) : a[j] = b[j]

StrLess(a, b) ==
    IF \A i \in 1..Min({Len(a), Len(b)}) : a[i] = b[i] THEN Len(a) < Len(b)
    ELSE \E i \in 1..Min({Len(a), Len(b)}) :
             DiffersAt(a, b, i) /\ Ord(a[i]) < Ord(b[i])

\* sorted(list(items_set)), line 161
RECURSIVE sorted(_)
SortedFrom(items, least) == <<least>> \o sorted(items \ {least})

sorted(items) ==
    IF items = {} THEN <<>>
    ELSE SortedFrom(items,
                    CHOOSE x \in items :
                        \A y \in items : x = y \/ StrLess(x, y))

\* save_to_file(directory, category_name, items_set) with the write going
\* well or not: (saved, count), the files afterwards (a file is the
\* sequence of its lines), the error logged
save_to_file(directory, category_name, items_set, writes) ==
    IF items_set = {}
    THEN [saved |-> FALSE, count |-> 0, files |-> directory, error |-> FALSE]
    ELSE IF writes
    THEN [saved |-> TRUE, count |-> Cardinality(items_set),
          files |-> (category_name :> sorted(items_set)) @@ directory,
          error |-> FALSE]
    ELSE [saved |-> FALSE, count |-> 0, files |-> directory, error |-> TRUE]

\* the variant of lines 414-415 and 418-419 without `if saved`
CountedAlways(counts, category, result) ==
    (category :> result.count) @@ counts

\* lines 414-415 and 418-419
Counted(counts, category, result) ==
    IF result.saved THEN (category :> result.count) @@ counts ELSE counts

Logged(errors, category, result) ==
    IF result.error THEN errors \cup {category} ELSE errors

\* one turn of the loop of line 413
SaveProtocol(writes) ==
    /\ pc = "save_protocols"
    /\ writes \/ Cardinality(write_errors) < MaxWriteFailures
    /\ LET category == PROTOCOL_CATEGORIES[save_index]
           result == save_to_file(files, category,
                                  final_all_protocols[category], writes)
       IN  /\ files' = result.files
           /\ protocol_counts' = Counted(protocol_counts, category, result)
           /\ write_errors' = Logged(write_errors, category, result)
    /\ IF save_index = Len(PROTOCOL_CATEGORIES)
       THEN pc' = "save_countries" /\ save_index' = 1
       ELSE pc' = pc /\ save_index' = save_index + 1
    /\ UNCHANGED <<fetchVars, inputVars, pageVars, bucketVars, country_counts,
                   filter_warnings>>

\* one turn of the loop of line 417
SaveCountry(writes) ==
    /\ pc = "save_countries"
    /\ save_index <= Len(country_category_names)
    /\ writes \/ Cardinality(write_errors) < MaxWriteFailures
    /\ LET category == country_category_names[save_index]
           result == save_to_file(files, category,
                                  final_configs_by_country[category], writes)
       IN  /\ files' = result.files
           /\ country_counts' = Counted(country_counts, category, result)
           /\ write_errors' = Logged(write_errors, category, result)
    /\ save_index' = save_index + 1
    /\ UNCHANGED <<fetchVars, inputVars, pc, pageVars, bucketVars,
                   protocol_counts, filter_warnings>>

\* lines 421-430: the counts go to generate_simple_readme
Finish ==
    /\ pc = "save_countries"
    /\ save_index > Len(country_category_names)
    /\ pc' = "done"
    /\ UNCHANGED <<fetchVars, inputVars, pageVars, bucketVars, outputVars,
                   filter_warnings>>

(***************************************************************************)
(* The specifications                                                      *)
(***************************************************************************)
\* main with a short urls.txt: fewer addresses than CONCURRENT_REQUESTS, so
\* no task ever queues for the semaphore
Next ==
    \/ \E i \in TaskSet : StartTask(i)
    \/ \E i \in TaskSet : FetchOk(i)
    \/ \E i \in TaskSet : FetchFail(i)
    \/ GatherReturn
    \/ SkipPage
    \/ ExtractAndFilter
    \/ \E c \in all_page_configs_after_filter : ClassifyConfig(c)
    \/ PrepareOutput
    \/ \E writes \in BOOLEAN : SaveProtocol(writes)
    \/ \E writes \in BOOLEAN : SaveCountry(writes)
    \/ Finish

Spec == Init /\ [][Next]_vars

\* the fetch stage alone, with more addresses than the semaphore admits
NextFetch ==
    \/ \E i \in TaskSet : StartTask(i)
    \/ WakeWaiter
    \/ \E i \in TaskSet : FetchOk(i)
    \/ \E i \in TaskSet : FetchFail(i)
    \/ GatherReturn

SpecFetch == InitFetch /\ [][NextFetch]_vars

\* the event loop runs every task that can run, and REQUEST_TIMEOUT (line
\* 19) ends every request: a step that can be taken is taken
FairSpecFetch == SpecFetch /\ WF_vars(NextFetch)

(***************************************************************************)
(* The properties                                                          *)
(***************************************************************************)
\* the values of a mapping
Buckets(map) == {map[k] : k \in DOMAIN map}

\* the configs some protocol or country bucket holds
InSomeBucket ==
    UNION Buckets(final_all_protocols) \cup UNION Buckets(final_configs_by_country)

\* the lines of the files written so far
InSomeFile == UNION {Range(files[f]) : f \in DOMAIN files}

\* the configs find_matches extracted from the pages gone through so far
ExtractedSoFar ==
    UNION {m.configs :
              m \in UNION {page_protocol_matches(fetched_pages[k].url) :
                              k \in {j \in 1..Len(fetched_pages) :
                                        /\ pc # "gather"
                                        /\ j < page \/ (j = page /\ pc # "pages")
                                        /\ fetched_pages[j].text = "text"}}}

\* C1: in every state of a run, every config a protocol bucket, a country
\* bucket or an output file holds is one should_filter_config returned False
\* for, and a count of a category counts only such configs; the config with
\* '%25' 20 times is in no bucket and in no file.
C1_OnlyPassingConfigsKept ==
    /\ \A c \in InSomeBucket \cup InSomeFile : ~Filtered[c].drop
    /\ \A cat \in DOMAIN protocol_counts :
           protocol_counts[cat] =
               Cardinality({c \in final_all_protocols[cat] : ~Filtered[c].drop})
    /\ \A cat \in DOMAIN country_counts :
           country_counts[cat] =
               Cardinality({c \in final_configs_by_country[cat] :
                               ~Filtered[c].drop})
    /\ ConfigVlessPct20 \notin InSomeBucket \cup InSomeFile

\* a run came to its end with the config with '%25' 20 times extracted and
\* rejected, and with other vless configs written and counted
C1_Witness ==
    /\ pc = "done"
    /\ ConfigVlessPct20 \in ExtractedSoFar
    /\ Filtered[ConfigVlessPct20].drop
    /\ \E w \in filter_warnings : w.config = ConfigVlessPct20
    /\ "Vless" \in DOMAIN files
    /\ "Vless" \in DOMAIN protocol_counts

\* C2: in the fetch stage at most CONCURRENT_REQUESTS calls of fetch_url are
\* in flight at a time, whatever the interleaving and whichever fetches
\* fail; no address is attempted twice, a task that is fetching or done has
\* made its one attempt, and when gather returns every address has been
\* attempted exactly once.
C2_BoundedInFlightOneAttempt ==
    /\ Cardinality(InFlight) <= CONCURRENT_REQUESTS
    /\ \A i \in TaskSet :
           /\ attempts[i] <= 1
           /\ task[i] \in {"fetching", "done"} <=> attempts[i] = 1
    /\ pc # "gather" => \A i \in TaskSet : attempts[i] = 1

\* a fetch has failed and a task that had queued for the semaphore fetches
\* in its place: the semaphore is exhausted again
C2_Witness ==
    /\ Cardinality(InFlight) = CONCURRENT_REQUESTS
    /\ sem_value = 0
    /\ \E i \in TaskSet : fetched_pages[i].text = "None"
    /\ \E i \in InFlight : i > CONCURRENT_REQUESTS

\* fetch i has settled: text or None, for its own address
Settled(i) ==
    /\ task[i] = "done"
    /\ fetched_pages[i].text \in {"text", "None"}
    /\ fetched_pages[i].url = urls[i]

AllSettled ==
    /\ DOMAIN fetched_pages = 1..Len(urls)
    /\ \A i \in TaskSet : Settled(i)

\* the step in which fetch i fails gives its slot back and leaves every
\* other fetch as it was
FailureLeavesOthers(i) ==
    (fetched_pages[i].text = "pending" /\ fetched_pages'[i].text = "None")
        => /\ sem_value' = sem_value + 1
           /\ \A j \in TaskSet \ {i} :
                  task'[j] = task[j] /\ fetched_pages'[j] = fetched_pages[j]

\* C3: every fetch eventually settles with text or None for its own address;
\* the failure of a fetch releases its slot of the semaphore and changes no
\* other fetch; a slot is held by fetches in flight only; and the pages are
\* gone through only once every fetch has settled, one (address, text or
\* None) pair per address.
C3_AllSettleBeforePages ==
    /\ [](sem_value + Cardinality(InFlight) = CONCURRENT_REQUESTS)
    /\ [](pc # "gather" => AllSettled)
    /\ [][\A i \in TaskSet : FailureLeavesOthers(i)]_vars
    /\ <>(AllSettled /\ pc = "pages")

\* gather has returned with failed and successful fetches, among them
\* fetches that had queued for the semaphore
C3_Witness ==
    /\ pc = "pages"
    /\ AllSettled
    /\ Len(fetched_pages) = Len(urls)
    /\ Len(urls) > CONCURRENT_REQUESTS
    /\ \E i \in TaskSet : fetched_pages[i].text = "None"
    /\ \E i \in TaskSet : fetched_pages[i].text = "text"

\* the pages the loop of line 326 is done extracting from
PagesExtracted ==
    {j \in 1..Len(fetched_pages) :
        /\ pc # "gather"
        /\ j < page \/ (j = page /\ pc # "pages")
        /\ fetched_pages[j].text = "text"}

\* the configs a pattern of the protocol category cat matched on those pages
MatchedSoFar(cat) ==
    UNION {m.configs :
              m \in {x \in UNION {page_protocol_matches(fetched_pages[j].url) :
                                     j \in PagesExtracted} : x.cat = cat}}

\* the configs of each page, under each keywords.json, that a protocol
\* pattern matched and should_filter_config let through
PagePassing ==
    <<>> @@ [f \in 1..Len(KeywordFiles) |->
                <<>> @@ [a \in Addresses |->
                    {c \in UNION {m.configs : m \in PageMatches[f][a]} :
                        ~Filtered[c].drop}]]

\* the configs that went past the filter and that the loop of line 340 has
\* taken up: those of the pages done, and those of the page in hand
TakenUp ==
    classified
        \cup (IF pc = "raised" THEN {current_config} ELSE {})
        \cup UNION {PagePassing[keyword_file][fetched_pages[j].url] :
                       j \in {k \in PagesExtracted : k < page}}

\* the kept keywords of a country category of keywords.json
MatchableKeywords(side, country) ==
    text_keywords_for_country(side, country.key, country.items)

\* the country category has a matchable keyword that matches the text
CountryMatchesName(side, country, text) ==
    \E kw \in Range(MatchableKeywords(side, country)) :
        KeywordMatches(kw.v, text)

\* the country categories that match the name of config c, as indices in the
\* order of keywords.json: none when c has no name
MatchingCountriesOf(side, countries, c) ==
    IF ~ResolvedName[c].truthy THEN {}
    ELSE {k \in 1..Len(countries) :
             CountryMatchesName(side, countries[k],
                                current_name_to_check_str(ResolvedName[c]))}

\* the first of them, "" when there is none
FirstOf(countries, matching) ==
    IF matching = {} THEN ""
    ELSE countries[CHOOSE k \in matching : \A j \in matching : k <= j].cat

Sides == {"HEAD", "80b6e0f"}

\* for each side of the conflict, each keywords.json and each config: the
\* country categories that match its name, and the first of them
CountryTable ==
    <<>> @@ [side \in Sides |->
        <<>> @@ [f \in 1..Len(KeywordFiles) |->
            <<>> @@ [c \in AllConfigs |->
                [all |-> MatchingCountriesOf(side, CountryKeywords(KeywordFiles[f]), c),
                 first |-> FirstOf(CountryKeywords(KeywordFiles[f]),
                                   MatchingCountriesOf(side,
                                       CountryKeywords(KeywordFiles[f]), c))]]]]

MatchingCountries(c) == CountryTable[branch][keyword_file][c].all

FirstMatchingCountry(c) == CountryTable[branch][keyword_file][c].first

\* the country buckets that hold config c
CountryBucketsOf(c) ==
    {cat \in DOMAIN final_configs_by_country : c \in final_configs_by_country[cat]}

\* C4: a config with a name that the loop of line 340 has taken up is in the
\* bucket of the first country category, in the order of keywords.json, that
\* has a matchable keyword matching the name, and in no other country
\* bucket; no config is ever in two country buckets.
C4_FirstMatchingCountryWins ==
    /\ \A c \in TakenUp :
           CountryBucketsOf(c) =
               IF FirstMatchingCountry(c) = "" THEN {}
               ELSE {FirstMatchingCountry(c)}
    /\ \A c \in AllConfigs : Cardinality(CountryBucketsOf(c)) <= 1

\* the protocol buckets that hold config c
ProtocolBucketsOf(c) ==
    {cat \in DOMAIN final_all_protocols : c \in final_all_protocols[cat]}

\* the protocol categories a pattern of which matched config c so far
ProtocolsMatching(c) == {cat \in ProtocolSet : c \in MatchedSoFar(cat)}

\* the configs extracted so far that went past the filter
PassedSoFar ==
    {c \in UNION {MatchedSoFar(cat) : cat \in ProtocolSet} : ~Filtered[c].drop}

\* C5 as stated: at the end of a run every config that was extracted and
\* went past the filter is in exactly one protocol bucket.
C5_ExactlyOneProtocolBucket ==
    pc = "done" => \A c \in PassedSoFar : Cardinality(ProtocolBucketsOf(c)) = 1

\* C5: every config that was extracted and went past the filter is in the
\* bucket of each protocol category a pattern of which matched it, and in
\* no other protocol bucket: in exactly one when the patterns of one
\* category only match it.
C5_BucketsOfMatchingProtocols ==
    /\ \A c \in PassedSoFar :
           /\ ProtocolBucketsOf(c) = ProtocolsMatching(c)
           /\ Cardinality(ProtocolsMatching(c)) = 1
                  => Cardinality(ProtocolBucketsOf(c)) = 1
    /\ \A c \in AllConfigs \ PassedSoFar : ProtocolBucketsOf(c) = {}

\* a run came to its end with a vless config in the Vless and the Trojan
\* bucket, both patterns having matched it, and another config in one
\* bucket only
C5_Witness ==
    /\ pc = "done"
    /\ ProtocolBucketsOf(ConfigVlessUS) = {"Vless", "Trojan"}
    /\ ProtocolsMatching(ConfigVlessUS) = {"Vless", "Trojan"}
    /\ \E c \in PassedSoFar : ProtocolBucketsOf(c) = {"Vmess"}

\* the four reasons to reject a config, as the contract states them
RejectReasons(d) ==
    {r \in {"i_love_", "%25 15 times", "1500 long", "%2525"} :
        \/ r = "i_love_" /\ Contains(Lower(d), ILoveMarker)
        \/ r = "%25 15 times" /\ Count(d, Percent25) >= 15
        \/ r = "1500 long" /\ Len(d) >= 1500
        \/ r = "%2525" /\ Contains(d, Percent2525)}

\* the reasons, for every config of the pages
ReasonsTable == <<>> @@ [c \in AllConfigs |-> RejectReasons(c)]

\* the configs should_filter_config has logged a warning for
Warned == {w.config : w \in filter_warnings}

\* the configs extracted so far
ExtractedConfigs == UNION {MatchedSoFar(cat) : cat \in ProtocolSet}

\* C6: should_filter_config returns True for a config exactly when the
\* config holds 'i_love_' in any case, or '%25' 15 times or more, or is 1500
\* characters long or longer, or holds '%2525'; the config with '%25' 15
\* times is rejected and the one with 14 times is not, as is the one of 1500
\* characters and not the one of 1499; a config met on two pages gets the
\* same verdict on both.
C6_RejectedExactlyForAReason ==
    /\ \A c \in ExtractedConfigs :
           /\ Filtered[c].drop <=> ReasonsTable[c] # {}
           /\ c \in Warned <=> ReasonsTable[c] # {}
           /\ ProtocolBucketsOf(c) # {} <=> ReasonsTable[c] = {}
    /\ Warned \cap UNION Buckets(final_all_protocols) = {}
    /\ ConfigVlessPct15 \in ExtractedConfigs
           => /\ ConfigVlessPct15 \in Warned
              /\ ConfigVlessPct14 \in final_all_protocols["Vless"]
              /\ ConfigVlessLen1500 \in Warned
              /\ ConfigVlessLen1499 \in final_all_protocols["Vless"]

\* a run came to its end after the page with the configs at the thresholds:
\* each of the four reasons has rejected a config on its own
C6_Witness ==
    /\ ConfigVlessPct15 \in Warned
    /\ ConfigVlessPct14 \in final_all_protocols["Vless"]
    /\ ReasonsTable[ConfigVlessPct15] = {"%25 15 times"}
    /\ ReasonsTable[ConfigVlessPct14] = {}
    /\ \A r \in {"i_love_", "%25 15 times", "1500 long", "%2525"} :
           \E c \in Warned : ReasonsTable[c] = {r}
    /\ pc = "done"

\* the percent-decoded, trimmed text after the first '#' of a config, empty
\* when the config has no '#'
FragmentName(c) ==
    IF ~Contains(c, <<"#">>) THEN <<>>
    ELSE Strip(unquote(Slice(c, Find(c, <<"#">>, 1) + 1, Len(c) + 1)))

\* the name the payload of an ssr or a vmess link carries
PayloadName(c) ==
    IF StartsWith(c, SsrPrefix) THEN get_ssr_name(c)
    ELSE IF StartsWith(c, VmessPrefix) THEN get_vmess_name(c)
    ELSE None

\* both, for every config of the pages
NameTable ==
    <<>> @@ [c \in AllConfigs |->
                [fragment |-> FragmentName(c), payload |-> PayloadName(c)]]

NameUS == Str(<<"U","S">>)

NameUSServer1 == Str(<<"U","S"," ","S","e","r","v","e","r"," ","1">>)

NameGermany1 == Str(<<"G","e","r","m","a","n","y"," ","1">>)

NameJapan2 == Str(<<"J","a","p","a","n"," ","2">>)

\* the config the loop of line 340 took up last, if any
TookUp(c) == current_config = c

\* C7: the name of the config taken up is the percent-decoded, trimmed text
\* after its first '#' when that is not empty, whatever its payload says;
\* the name of the vmess or ssr payload only when there is no such text; a
\* payload that does not decode, does not parse or has no name field gives
\* no name, and the config is skipped without an exception.
C7_FragmentBeforePayload ==
    /\ \A c \in AllConfigs : TookUp(c) =>
           /\ NameTable[c].fragment # <<>>
                  => current_name = Str(NameTable[c].fragment)
           /\ NameTable[c].fragment = <<>>
                  => current_name = NameTable[c].payload
           /\ ~current_name.truthy => pc # "raised" /\ CountryBucketsOf(c) = {}
    /\ TookUp(ConfigSsrFragment) => current_name = NameUS
    /\ TookUp(ConfigVmessFragment) => current_name = NameUSServer1
    /\ TookUp(ConfigVmessGermany) => current_name = NameGermany1
    /\ TookUp(ConfigSsrJapan) => current_name = NameJapan2
    /\ \A c \in {ConfigVmessNoPs, ConfigVmessBroken} :
           TookUp(c) => current_name = None

\* the ssr link with the fragment US and the payload name Japan 2 has been
\* taken up and named by its fragment, with vmess links whose payload gives
\* no name on the same page
C7_Witness ==
    /\ TookUp(ConfigSsrFragment)
    /\ current_name = NameUS
    /\ NameTable[ConfigSsrFragment].payload = NameJapan2
    /\ pc # "gather"
    /\ {ConfigVmessNoPs, ConfigVmessBroken} \subseteq final_all_protocols["Vmess"]

\* a short item that is not purely alphanumeric
Decorative(kw) == Len(kw) >= 1 /\ Len(kw) <= 7 /\ ~IsAlnum(kw)

\* exactly 2 or 3 uppercase letters
Abbreviation(kw) ==
    Len(kw) \in {2, 3} /\ \A i \in 1..Len(kw) : kw[i] \in UpperLetters

\* kw occurs in text, in any case, with no word character right before or
\* right after it
WholeWordIn(kw, text) ==
    \E i \in 1..Len(text) :
        /\ OccursAt(Lower(text), Lower(kw), i)
        /\ i = 1 \/ ~IsWordChar(text[i - 1])
        /\ i + Len(kw) > Len(text) \/ ~IsWordChar(text[i + Len(kw)])

\* the matching of a keyword as the contract states it
MatchesAsStated(kw, text) ==
    IF Abbreviation(kw) THEN WholeWordIn(kw, text)
    ELSE Contains(Lower(text), Lower(kw))

\* the country categories a matchable keyword of which matches the name of
\* config c as stated
StatedCountriesOf(side, countries, c) ==
    IF ~ResolvedName[c].truthy THEN {}
    ELSE {countries[k].cat : k \in
             {j \in 1..Len(countries) :
                 \E kw \in Range(MatchableKeywords(side, countries[j])) :
                     MatchesAsStated(kw.v,
                         current_name_to_check_str(ResolvedName[c]))}}

\* no matchable keyword is decorative, and lines 389-398 decide as stated
\* for every matchable keyword and the name of config c
DecidesAsStated(side, countries, c) ==
    \A k \in 1..Len(countries) :
        \A kw \in Range(MatchableKeywords(side, countries[k])) :
            /\ ~Decorative(kw.v)
            /\ ResolvedName[c].truthy =>
                   (KeywordMatches(kw.v, current_name_to_check_str(ResolvedName[c]))
                       <=> MatchesAsStated(kw.v,
                               current_name_to_check_str(ResolvedName[c])))

StatedTable ==
    <<>> @@ [side \in Sides |->
        <<>> @@ [f \in 1..Len(KeywordFiles) |->
            <<>> @@ [c \in AllConfigs |->
                [countries |->
                     StatedCountriesOf(side, CountryKeywords(KeywordFiles[f]), c),
                 decided |->
                     DecidesAsStated(side, CountryKeywords(KeywordFiles[f]), c)]]]]

StatedCountries(c) == StatedTable[branch][keyword_file][c].countries

\* the configs the loop of line 340 is done with
Completed == TakenUp \ (IF pc = "raised" THEN {current_config} ELSE {})

LinesOf(cat) == IF cat \in DOMAIN files THEN Range(files[cat]) ELSE {}

\* C9 as stated: a config that went past the filter and whose name is absent
\* or matches no country category is in no country bucket, taking it up
\* does not abort the run, and at the end of the run it is in the file of
\* its protocol bucket unless the write failed.
C9_UnmatchedConfigNeverAborts ==
    \A c \in TakenUp :
        FirstMatchingCountry(c) = ""
            => /\ CountryBucketsOf(c) = {}
               /\ ~(pc = "raised" /\ current_config = c)
               /\ pc = "done" =>
                      \A cat \in ProtocolBucketsOf(c) :
                          cat \in write_errors \/ c \in LinesOf(cat)

\* the protocol and the country categories the loops of lines 413 and 417
\* are done with
ProtocolsSaved ==
    IF pc = "save_protocols"
    THEN {PROTOCOL_CATEGORIES[i] : i \in 1..(save_index - 1)}
    ELSE IF pc \in {"save_countries", "done"} THEN ProtocolSet ELSE {}

CountriesSaved ==
    IF pc = "save_countries"
    THEN {country_category_names[i] : i \in 1..(save_index - 1)}
    ELSE IF pc = "done" THEN Range(country_category_names) ELSE {}

\* what the output stage owes a category it is done with: a file with the
\* bucket's configs, once each, exactly when the bucket is not empty and the
\* write went well, and a count exactly when there is a file
SavedAsOwed(cat, bucket, counts) ==
    /\ cat \in DOMAIN files <=> bucket # {} /\ cat \notin write_errors
    /\ cat \in DOMAIN counts <=> bucket # {} /\ cat \in DOMAIN files
    /\ cat \in DOMAIN counts => counts[cat] = Cardinality(bucket)
    /\ cat \in DOMAIN files =>
           Range(files[cat]) = bucket /\ Len(files[cat]) = Cardinality(bucket)
    /\ cat \in write_errors => bucket # {}

\* C10: at the output stage a category has a count exactly when its bucket
\* is not empty and its file was written; the count is the number of
\* different configs of the bucket; an empty bucket gives no file and no
\* count; a category whose write failed has no count, and the categories
\* after it are written all the same.
C10_CountsOfWrittenBuckets ==
    /\ \A cat \in ProtocolsSaved :
           SavedAsOwed(cat, final_all_protocols[cat], protocol_counts)
    /\ \A cat \in CountriesSaved :
           SavedAsOwed(cat, final_configs_by_country[cat], country_counts)
    /\ DOMAIN protocol_counts \subseteq ProtocolsSaved
    /\ DOMAIN country_counts \subseteq CountriesSaved
    /\ DOMAIN files \subseteq ProtocolsSaved \cup CountriesSaved

\* a run came to its end with the write of Vless.txt failed, the file of
\* a later category written, a config met on two pages counted once and an
\* empty bucket without file and count
C10_Witness ==
    /\ pc = "done"
    /\ write_errors = {"Vless"}
    /\ final_all_protocols["Vless"] # {}
    /\ "Vless" \notin DOMAIN protocol_counts \cup DOMAIN files
    /\ "Trojan" \in DOMAIN protocol_counts \cap DOMAIN files
    /\ country_counts # EmptyMap
    /\ Len(urls) = 2
    /\ \A j \in 1..2 :
           /\ fetched_pages[j].text = "text"
           /\ ConfigVmessGermany \in
                  PagePassing[keyword_file][fetched_pages[j].url]
    /\ protocol_counts["Vmess"] = Cardinality(final_all_protocols["Vmess"])
    /\ final_all_protocols["Tuic"] = {}
    /\ "Tuic" \notin DOMAIN files \cup DOMAIN protocol_counts

\* the pages fetch_url got a text for, in whatever order urls.txt lists them
PagesWithText ==
    {fetched_pages[j].url :
        j \in {k \in 1..Len(fetched_pages) : fetched_pages[k].text = "text"}}

\* what the pages owe the bucket of a protocol and of a country category,
\* whatever the order of the pages and of the configs of a page
ProtocolBucketOwed(cat) ==
    UNION {{c \in UNION {m.configs : m \in {x \in PageMatches[keyword_file][a] :
                                                x.cat = cat}} :
               ~Filtered[c].drop} : a \in PagesWithText}

CountryBucketOwed(cat) ==
    {c \in UNION {PagePassing[keyword_file][a] : a \in PagesWithText} :
        FirstMatchingCountry(c) = cat}

\* whether the pages make the run end at line 403, whatever their order:
\* a config with a name is met while the first country category has no
\* matchable keyword
AbortOwed ==
    /\ country_keywords_for_naming # <<>>
    /\ MatchableKeywords(branch, country_keywords_for_naming[1]) = <<>>
    /\ \E c \in UNION {PagePassing[keyword_file][a] : a \in PagesWithText} :
           ResolvedName[c].truthy

\* no step takes a config out of a bucket
BucketsOnlyGrow ==
    /\ \A cat \in DOMAIN final_all_protocols :
           cat \in DOMAIN final_all_protocols'
               /\ final_all_protocols[cat] \subseteq final_all_protocols'[cat]
    /\ \A cat \in DOMAIN final_configs_by_country :
           cat \in DOMAIN final_configs_by_country'
               /\ final_configs_by_country[cat]
                      \subseteq final_configs_by_country'[cat]

\* C11: once the pages are gone through, every protocol and country bucket
\* holds what the set of pages with a text owes it, whatever the order of
\* the pages in urls.txt and the order in which the configs of a page were
\* taken up, and so do the files and the counts; whether the run gets that
\* far depends on the set of pages only; a step never takes a config out of
\* a bucket, and adding a config a bucket holds changes nothing.
C11_BucketsIndependentOfOrder ==
    /\ [](pc \in {"save_protocols", "save_countries", "done"} =>
              /\ \A cat \in ProtocolSet :
                     final_all_protocols[cat] = ProtocolBucketOwed(cat)
              /\ \A cat \in Range(country_category_names) :
                     final_configs_by_country[cat] = CountryBucketOwed(cat))
    /\ [](pc = "done" =>
              /\ \A cat \in DOMAIN files :
                     Range(files[cat]) = ProtocolBucketOwed(cat)
                                             \cup CountryBucketOwed(cat)
              /\ \A cat \in DOMAIN protocol_counts :
                     protocol_counts[cat] = Cardinality(ProtocolBucketOwed(cat))
              /\ \A cat \in DOMAIN country_counts :
                     country_counts[cat] = Cardinality(CountryBucketOwed(cat)))
    /\ [](pc = "raised" => AbortOwed)
    /\ [](pc \in {"save_protocols", "save_countries", "done"} => ~AbortOwed)
    /\ [][BucketsOnlyGrow]_vars

\* a run came to its end over two pages that share a config, the second
\* listed before the first, with country buckets filled from both
C11_Witness ==
    /\ pc = "done"
    /\ Len(urls) = 2
    /\ urls[1] > urls[2]
    /\ \A j \in 1..2 :
           /\ fetched_pages[j].text = "text"
           /\ ConfigVmessGermany \in
                  PagePassing[keyword_file][fetched_pages[j].url]
           /\ \E c \in PagePassing[keyword_file][fetched_pages[j].url] :
                  CountryBucketsOf(c) # {}
    /\ Cardinality(final_all_protocols["Vmess"]) = 3

=============================================================================
